---- MODULE Spec2Model ----
(***************************************************************************)
(* A model of sudo.py: the Square / Unit / Grid / Puzzle classes, the      *)
(* elimination techniques of Unit and Grid, Puzzle.update_notation and     *)
(* Puzzle.solve.                                                           *)
(*                                                                         *)
(* Conventions.                                                            *)
(*  - Squares are named by their index 0..80 (Square.index).               *)
(*  - Units are named 0..26 in the order of self.rows + self.columns +     *)
(*    self.boxes: rows 0..8, columns 9..17, boxes 18..26.                  *)
(*  - Python's None for Square._value is the number None (0): the          *)
(*    constructor already maps the digit 0 to None.                        *)
(*  - A move_stack entry "<index>=<value>" or "<index>-=<digits>" is the   *)
(*    record [index, op, digits]; digits is the set of digit characters    *)
(*    that the entry's right-hand side is made of.                         *)
(*  - A Python set of digits (or of list positions) is iterated here in    *)
(*    ascending order.  CPython's order can differ for small sets that     *)
(*    hold 8 or 9; it only decides the relative order of log entries that  *)
(*    one technique appends and which digit find_x_wings tries first.      *)
(*  - An exception raised inside solve ends solve: the place it was raised *)
(*    from keeps the mutations made so far, `raised` names the exception.  *)
(***************************************************************************)
EXTENDS Integers, Sequences, FiniteSets, TLC

None == 0

Digits == 1..9

Squares == 0..80

Units == 0..26

Rows == 0..8

Columns == 9..17

Boxes == 18..26

DigitSeq == <<1, 2, 3, 4, 5, 6, 7, 8, 9>>

NoError == "none"

\* The function f itself, tabulated: TLC evaluates the body of a function
\* constructor anew at every application unless the function is built first.
Memo(f) == f @@ << >>

\* F(v), with v evaluated once however often F uses it: the statement
\* "x = v; ... x ... x ..." of the code.
With(v, F(_)) == CHOOSE r \in {F(x) : x \in {v}} : TRUE

With2(v, w, F(_, _)) == CHOOSE r \in {F(x, y) : x \in {v}, y \in {w}} : TRUE

(***************************************************************************)
(* Grid.__init__: the row, column and box of the square with index i.      *)
(***************************************************************************)
row_index(i) == i \div 9

column_index(i) == i % 9

box_index(i) == ((row_index(i) \div 3) * 3) + (column_index(i) \div 3)

\* Unit.unit: the kind tag of a unit.
unit_kind(u) == IF u \in Rows THEN "Row" ELSE IF u \in Columns THEN "Column" ELSE "Box"

\* The units a square is appended to by Square.__init__ (Square.row, .column, .box).
row_of(i) == row_index(i)

column_of(i) == 9 + column_index(i)

box_of(i) == 18 + box_index(i)

InUnit(i, u) == u = row_of(i) \/ u = column_of(i) \/ u = box_of(i)

\* Ascending sequence of the members of a set of squares.
SquareSeq(S) == SelectSeq(Memo([k \in 1..81 |-> k - 1]), LAMBDA s : s \in S)

\* Unit.squares: the squares of a unit in the order Square.__init__ appends them,
\* which is the ascending order of the indices i with InUnit(i, u).
unit_squares(u) ==
    IF u \in Rows THEN [k \in 1..9 |-> (9 * u) + (k - 1)]
    ELSE IF u \in Columns THEN [k \in 1..9 |-> (9 * (k - 1)) + (u - 9)]
    ELSE [k \in 1..9 |-> (9 * ((3 * ((u - 18) \div 3)) + ((k - 1) \div 3)))
                            + (3 * ((u - 18) % 3)) + ((k - 1) % 3)]

\* Ascending sequence of the members of a set of digits.
SortedDigits(S) == SelectSeq(DigitSeq, LAMBDA d : d \in S)

\* The set of elements of a sequence.
Range(seq) == {seq[k] : k \in 1..Len(seq)}

\* list.remove(x) for a list that holds x: drops the first occurrence of x.
list_remove(seq, x) ==
    LET first == CHOOSE k \in 1..Len(seq) : seq[k] = x /\ \A j \in 1..(k - 1) : seq[j] # x
    IN  [k \in 1..(Len(seq) - 1) |-> IF k < first THEN seq[k] ELSE seq[k + 1]]

(***************************************************************************)
(* The part of the puzzle that update_notation mutates, threaded through   *)
(* the techniques: g.candidates (Square._candidates of every square),      *)
(* g.move_stack (Puzzle.move_stack), g.raised (the exception in flight)    *)
(* and g.ret (the value the last call returned, or the affected_grid flag  *)
(* accumulated so far).                                                    *)
(***************************************************************************)
Entry(s, o, ds) == [index |-> s, op |-> o, digits |-> ds]

\* "affected_grid |= <call>": g is the state before the call, h the state after it.
Acc(g, h) == [h EXCEPT !.ret = g.ret \/ h.ret]

\* remove_candidate that logs and reports the removal but leaves the digit in place.
remove_candidate_keeps_digit(g, s, v) ==
    IF g.raised # NoError THEN g
    ELSE IF v \in g.candidates[s]
    THEN [g EXCEPT !.move_stack = Append(@, Entry(s, "-=", {v})),
                   !.ret = TRUE]
    ELSE [g EXCEPT !.ret = FALSE]

\* remove_candidate that discards the digit without appending to the move stack.
remove_candidate_unlogged(g, s, v) ==
    IF g.raised # NoError THEN g
    ELSE IF v \in g.candidates[s]
    THEN [g EXCEPT !.candidates[s] = @ \ {v},
                   !.ret = TRUE]
    ELSE [g EXCEPT !.ret = FALSE]

\* Square.remove_candidate(value) on square s.
remove_candidate(g, s, v) ==
    IF g.raised # NoError THEN g
    ELSE IF v \in g.candidates[s]
    THEN [g EXCEPT !.candidates[s] = @ \ {v},
                   !.move_stack = Append(@, Entry(s, "-=", {v})),
                   !.ret = TRUE]
    ELSE [g EXCEPT !.ret = FALSE]

\* keep_candidates with the candidates replaced before the intersection is tested.
keep_candidates_replace_first(g, s, v) ==
    IF g.raised # NoError THEN g
    ELSE LET kept == g.candidates[s] \cap v
         IN  IF v \subseteq Digits /\ kept # {}
             THEN IF g.candidates[s] \subseteq v
                  THEN [g EXCEPT !.ret = FALSE]
                  ELSE [g EXCEPT !.candidates[s] = kept,
                                 !.move_stack = Append(@, Entry(s, "-=", kept \ v)),
                                 !.ret = TRUE]
             ELSE [g EXCEPT !.candidates[s] = kept, !.raised = "ValueError"]

\* keep_candidates with "no change" decided by == in place of <=.
keep_candidates_equality(g, s, v) ==
    IF g.raised # NoError THEN g
    ELSE IF v \subseteq Digits /\ (g.candidates[s] \cap v) # {}
    THEN IF g.candidates[s] = v
         THEN [g EXCEPT !.ret = FALSE]
         ELSE LET kept == g.candidates[s] \cap v
              IN  [g EXCEPT !.candidates[s] = kept,
                            !.move_stack = Append(@, Entry(s, "-=", kept \ v)),
                            !.ret = TRUE]
    ELSE [g EXCEPT !.raised = "ValueError"]

\* keep_candidates with the candidates replaced by v in place of the intersection.
keep_candidates_assigns_values(g, s, v) ==
    IF g.raised # NoError THEN g
    ELSE IF v \subseteq Digits /\ (g.candidates[s] \cap v) # {}
    THEN IF g.candidates[s] \subseteq v
         THEN [g EXCEPT !.ret = FALSE]
         ELSE [g EXCEPT !.candidates[s] = v,
                        !.move_stack = Append(@, Entry(s, "-=", {})),
                        !.ret = TRUE]
    ELSE [g EXCEPT !.raised = "ValueError"]

\* Square.keep_candidates(values) on square s.  The entry is formatted from
\* self._candidates - v after self._candidates has been replaced.
keep_candidates(g, s, v) ==
    IF g.raised # NoError THEN g
    ELSE IF v \subseteq Digits /\ (g.candidates[s] \cap v) # {}
    THEN IF g.candidates[s] \subseteq v
         THEN [g EXCEPT !.ret = FALSE]
         ELSE LET kept == g.candidates[s] \cap v
              IN  [g EXCEPT !.candidates[s] = kept,
                            !.move_stack = Append(@, Entry(s, "-=", kept \ v)),
                            !.ret = TRUE]
    ELSE [g EXCEPT !.raised = "ValueError"]

\* The exception in flight, if any, ends every loop.
Raised(g) == g.raised # NoError

\* "if affected_grid: return True" inside a loop, or an exception.
Returned(g) == g.ret \/ g.raised # NoError

\* for k in range(lo, hi + 1): g = Body(g, k), left as soon as Stop(g) holds.
\* The range is run as its lower half followed by its upper half.
Loop(g, lo, hi, Stop(_), Body(_, _)) ==
    LET RECURSIVE run(_, _, _)
        \* the n iterations from k = a on
        run(h, a, n) ==
            IF n <= 0 \/ Stop(h) THEN h
            ELSE IF n = 1 THEN Body(h, a)
            ELSE With(run(h, a, n \div 2),
                      LAMBDA h1 : run(h1, a + (n \div 2), (n + 1) \div 2))
    IN  run(g, lo, (hi - lo) + 1)

\* for c in ds: affected |= s.remove_candidate(c)
remove_digits(g, s, ds) ==
    Loop(g, 1, Len(ds), Raised, LAMBDA h, k : Acc(h, remove_candidate(h, s, ds[k])))

\* for s in ss: for c in ds: affected |= s.remove_candidate(c)
remove_each(g, ss, ds) ==
    Loop(g, 1, Len(ss), Raised, LAMBDA h, k : remove_digits(h, ss[k], ds))

\* for p in ps: affected |= unsolved_squares[p].keep_candidates(v)
keep_each(g, us, ps, v) ==
    Loop(g, 1, Len(ps), Raised, LAMBDA h, k : Acc(h, keep_candidates(h, us[ps[k]], v)))

\* Ascending sequence of the members of a set of list positions.
SortedPositions(S) == SelectSeq(DigitSeq, LAMBDA p : p \in S)

(***************************************************************************)
(* Unit.find_naked_pairs / find_naked_triples / find_naked_quadruples on   *)
(* the unsolved list us: the nested loops i < j < k < l over the list      *)
(* positions, combo being the positions the enclosing loops are at.  List  *)
(* positions count from 1.                                                 *)
(***************************************************************************)
\* The body of the innermost loop.
naked_set(g, us, n, combo) ==
    LET union == UNION {g.candidates[us[combo[c]]] : c \in 1..n}
        zs == SelectSeq([z \in 1..Len(us) |-> z], LAMBDA z : \A c \in 1..n : combo[c] # z)
    IN  IF Cardinality(union) = n
        THEN With2(Memo([k \in 1..Len(zs) |-> us[zs[k]]]), SortedDigits(union),
                   LAMBDA others, ds : remove_each(g, others, ds))
        ELSE g

RECURSIVE naked_scan(_, _, _, _)
naked_scan(g, us, n, combo) ==
    IF Len(combo) = n THEN naked_set(g, us, n, combo)
    ELSE Loop(g, (IF combo = <<>> THEN 0 ELSE combo[Len(combo)]) + 1, Len(us), Returned,
              LAMBDA h, p : With(Append(combo, p), LAMBDA next : naked_scan(h, us, n, next)))

find_naked_pairs(g, us) == naked_scan([g EXCEPT !.ret = FALSE], us, 2, <<>>)

find_naked_triples(g, us) == naked_scan([g EXCEPT !.ret = FALSE], us, 3, <<>>)

find_naked_quadruples(g, us) == naked_scan([g EXCEPT !.ret = FALSE], us, 4, <<>>)

(***************************************************************************)
(* Unit.find_hidden_singles / pairs / triples / quadruples.  positions is  *)
(* computed once from the state the call starts in; nums is                *)
(* sorted(unsolved_numbers); combo holds the positions in nums that the    *)
(* enclosing loops are at.                                                 *)
(***************************************************************************)
positions_in(g, us) ==
    Memo([d \in Digits |-> {p \in 1..Len(us) : d \in g.candidates[us[p]]}])

\* The body with keep_candidates called on every unsolved square of the unit
\* in place of the squares of union.
hidden_set_keeps_all(g, us, positions, nums, n, combo) ==
    LET union == UNION {positions[nums[combo[c]]] : c \in 1..n}
    IN  IF Cardinality(union) = n
        THEN With2(SortedPositions(1..Len(us)), {nums[combo[c]] : c \in 1..n},
                   LAMBDA ps, v : keep_each(g, us, ps, v))
        ELSE g

\* The body of the innermost loop.
hidden_set(g, us, positions, nums, n, combo) ==
    LET union == UNION {positions[nums[combo[c]]] : c \in 1..n}
    IN  IF Cardinality(union) = n
        THEN With2(SortedPositions(union), {nums[combo[c]] : c \in 1..n},
                   LAMBDA ps, v : keep_each(g, us, ps, v))
        ELSE g

RECURSIVE hidden_scan(_, _, _, _, _, _)
hidden_scan(g, us, positions, nums, n, combo) ==
    IF Len(combo) = n THEN hidden_set(g, us, positions, nums, n, combo)
    ELSE Loop(g, (IF combo = <<>> THEN 0 ELSE combo[Len(combo)]) + 1, Len(nums), Returned,
              LAMBDA h, p :
                  With(Append(combo, p),
                       LAMBDA next : hidden_scan(h, us, positions, nums, n, next)))

find_hidden(g, us, n) ==
    With(positions_in(g, us),
         LAMBDA positions :
             With(SortedDigits({d \in Digits : positions[d] # {}}),
                  LAMBDA nums :
                      hidden_scan([g EXCEPT !.ret = FALSE], us, positions, nums, n, <<>>)))

find_hidden_singles(g, us) == find_hidden(g, us, 1)

find_hidden_pairs(g, us) == find_hidden(g, us, 2)

find_hidden_triples(g, us) == find_hidden(g, us, 3)

find_hidden_quadruples(g, us) == find_hidden(g, us, 4)

(***************************************************************************)
(* Unit.find_naked_lines (boxes) and Unit.find_hidden_lines (rows and      *)
(* columns).  candidate_squares is computed once, before the loop over the *)
(* digits; unsolved_of[u] is the unsolved list of unit u.                  *)
(***************************************************************************)
candidate_squares_in(g, us) ==
    Memo([d \in Digits |-> {s \in Range(us) : d \in g.candidates[s]}])

\* The removal along a line without the test "if s not in c".
remove_outside_unfiltered(g, unsolved_of, r, c, i) ==
    remove_each(g, unsolved_of[r], <<i>>)

\* for s in r.unsolved_squares: if s not in c: affected_this_iteration |= s.remove_candidate(i)
remove_outside(g, unsolved_of, r, c, i) ==
    With(SelectSeq(unsolved_of[r], LAMBDA s : s \notin c),
         LAMBDA ss : remove_each(g, ss, <<i>>))

\* The body of "for i, c in candidate_squares.items()" in find_naked_lines.
naked_line(g, unsolved_of, c, i) ==
    LET candidate_rows == {row_of(s) : s \in c}
        candidate_columns == {column_of(s) : s \in c}
    IN  With(IF c # {} /\ Cardinality(candidate_rows) = 1
             THEN remove_outside(g, unsolved_of, CHOOSE r \in candidate_rows : TRUE, c, i)
             ELSE g,
             LAMBDA g1 :
                 IF c # {} /\ Cardinality(candidate_columns) = 1
                 THEN remove_outside(g1, unsolved_of, CHOOSE r \in candidate_columns : TRUE, c, i)
                 ELSE g1)

naked_lines_scan(g, unsolved_of, candidate_squares) ==
    Loop(g, 1, 9, Raised, LAMBDA h, i : naked_line(h, unsolved_of, candidate_squares[i], i))

find_naked_lines(g, unsolved_of, u) ==
    IF unit_kind(u) # "Box" THEN [g EXCEPT !.ret = FALSE]
    ELSE With(candidate_squares_in(g, unsolved_of[u]),
              LAMBDA candidate_squares :
                  naked_lines_scan([g EXCEPT !.ret = FALSE], unsolved_of, candidate_squares))

\* The body of "for i, c in candidate_squares.items()" in find_hidden_lines.
hidden_line(g, unsolved_of, c, i) ==
    LET candidate_boxes == {box_of(s) : s \in c}
    IN  IF c # {} /\ Cardinality(candidate_boxes) = 1
        THEN remove_outside(g, unsolved_of, CHOOSE b \in candidate_boxes : TRUE, c, i)
        ELSE g

hidden_lines_scan(g, unsolved_of, candidate_squares) ==
    Loop(g, 1, 9, Raised, LAMBDA h, i : hidden_line(h, unsolved_of, candidate_squares[i], i))

find_hidden_lines(g, unsolved_of, u) ==
    IF unit_kind(u) \notin {"Row", "Column"} THEN [g EXCEPT !.ret = FALSE]
    ELSE With(candidate_squares_in(g, unsolved_of[u]),
              LAMBDA candidate_squares :
                  hidden_lines_scan([g EXCEPT !.ret = FALSE], unsolved_of, candidate_squares))

(***************************************************************************)
(* Grid.__find_x_wing(i, rows, rows_label, columns).  rows and columns are *)
(* sequences of units; line numbers j, k and cross positions count from 0  *)
(* as in the code.                                                         *)
(***************************************************************************)
x_wing_positions(g, i, rows) ==
    Memo([j \in 0..8 |-> {k \in 0..8 : i \in g.candidates[unit_squares(rows[j + 1])[k + 1]]}])

\* The removal without "if z not in {j, k}".
x_wing_remove_unfiltered(g, i, columns, cs, j, k) ==
    Loop(g, 1, Len(cs), Raised,
         LAMBDA h, n : remove_each(h, unit_squares(columns[cs[n] + 1]), <<i>>))

\* for c in union: for z, s in enumerate(columns[c].squares): if z not in {j, k}: ...
x_wing_remove(g, i, columns, cs, j, k) ==
    Loop(g, 1, Len(cs), Raised,
         LAMBDA h, n :
             With(SelectSeq(unit_squares(columns[cs[n] + 1]),
                            LAMBDA s : \A z \in {j, k} : s # unit_squares(columns[cs[n] + 1])[z + 1]),
                  LAMBDA ss : remove_each(h, ss, <<i>>)))

\* The body of the loop over k, for the "rows" j and k.
x_wing_pair(g, i, positions, columns, j, k) ==
    IF positions[k] = {} THEN g
    ELSE LET union == positions[j] \cup positions[k]
         IN  IF Cardinality(union) = 2
             THEN With(SelectSeq([z \in 1..9 |-> z - 1], LAMBDA z : z \in union),
                       LAMBDA cs : x_wing_remove(g, i, columns, cs, j, k))
             ELSE g

\* for j in sorted(unsolved_rows): for k in [x for x in sorted(unsolved_rows) if x > j]
x_wing_scan(g, i, positions, columns) ==
    Loop(g, 0, 8, Returned,
         LAMBDA h, j :
             IF positions[j] = {} THEN h
             ELSE Loop(h, j + 1, 8, Returned,
                       LAMBDA h1, k : x_wing_pair(h1, i, positions, columns, j, k)))

find_x_wing(g, i, rows, columns) ==
    With(x_wing_positions(g, i, rows),
         LAMBDA positions : x_wing_scan([g EXCEPT !.ret = FALSE], i, positions, columns))

RowUnits == <<0, 1, 2, 3, 4, 5, 6, 7, 8>>

ColumnUnits == <<9, 10, 11, 12, 13, 14, 15, 16, 17>>

BoxUnits == <<18, 19, 20, 21, 22, 23, 24, 25, 26>>

AllUnits == RowUnits \o ColumnUnits \o BoxUnits

find_x_wing_rows(g, i) == find_x_wing(g, i, RowUnits, ColumnUnits)

find_x_wing_columns(g, i) == find_x_wing(g, i, ColumnUnits, RowUnits)

\* Grid.find_x_wings, the loop over unsolved_numbers.
x_wings_scan(g, ds) ==
    Loop([g EXCEPT !.ret = FALSE], 1, Len(ds), Returned,
         LAMBDA h, n :
             With(find_x_wing_rows(h, ds[n]),
                  LAMBDA h1 : IF Returned(h1) THEN h1 ELSE find_x_wing_columns(h1, ds[n])))

\* set.union(*[...]) of an empty list raises TypeError.
find_x_wings(g, unsolved_list) ==
    IF unsolved_list = <<>> THEN [g EXCEPT !.raised = "TypeError"]
    ELSE With(SortedDigits(UNION {g.candidates[s] : s \in Range(unsolved_list)}),
              LAMBDA ds : x_wings_scan(g, ds))


(***************************************************************************)
(* Unit.is_valid, Grid.is_valid and Grid.is_solved over the values val.    *)
(***************************************************************************)
\* Unit.is_valid with the two lengths compared by <= in place of ==.
unit_is_valid_at_most(val, u) ==
    LET sq == unit_squares(u)
        values_of == SelectSeq([k \in 1..Len(sq) |-> val[sq[k]]], LAMBDA v : v # None)
    IN  IF Len(sq) = 9 THEN Cardinality(Range(values_of)) <= Len(values_of) ELSE FALSE

unit_is_valid(val, u) ==
    LET sq == unit_squares(u)
        values_of == SelectSeq([k \in 1..Len(sq) |-> val[sq[k]]], LAMBDA v : v # None)
    IN  IF Len(sq) = 9 THEN Cardinality(Range(values_of)) = Len(values_of) ELSE FALSE

\* Grid.is_valid over self.rows alone.
is_valid_rows(val) == \A k \in 1..Len(RowUnits) : unit_is_valid(val, RowUnits[k])

is_valid(val) == \A k \in 1..Len(AllUnits) : unit_is_valid(val, AllUnits[k])

is_solved(val) == \A s \in Squares : val[s] # None

(***************************************************************************)
(* Simple pruning (update_notation): for every unsolved square, the solved *)
(* values of its row, then of its column, then of its box are removed.     *)
(***************************************************************************)
solved_values(val, u) == SortedDigits({val[unit_squares(u)[k]] : k \in 1..9} \ {None})

\* The digits "for v in set(...)" visits for square s: row, then column, then box.
pruning_digits(val, s) ==
    solved_values(val, row_of(s)) \o solved_values(val, column_of(s))
        \o solved_values(val, box_of(s))

\* The loop over self.unsolved_squares.
simple_pruning(g, val, unsolved_list) ==
    Loop(g, 1, Len(unsolved_list), Raised,
         LAMBDA h, k :
             With(pruning_digits(val, unsolved_list[k]),
                  LAMBDA ds : remove_digits(h, unsolved_list[k], ds)))

(***************************************************************************)
(* The Square.value setter on square s, on the record st of what it can    *)
(* touch: st.value, st.move_stack, st.unit_unsolved, st.raised.            *)
(***************************************************************************)
\* <unit>.unsolved_squares.remove(self): list.remove raises ValueError when self is absent.
unit_remove(st, u, s) ==
    IF st.raised # NoError THEN st
    ELSE IF s \in Range(st.unit_unsolved[u])
    THEN [st EXCEPT !.unit_unsolved[u] = list_remove(@, s)]
    ELSE [st EXCEPT !.raised = "ValueError"]

value_setter(st, s, v) ==
    IF st.raised # NoError THEN st
    ELSE IF v \in Digits
    THEN With(unit_remove([st EXCEPT !.value[s] = v,
                                     !.move_stack = Append(@, Entry(s, "=", {v}))],
                          row_of(s), s),
              LAMBDA st1 :
                  With(unit_remove(st1, column_of(s), s),
                       LAMBDA st2 : unit_remove(st2, box_of(s), s)))
    ELSE [st EXCEPT !.raised = "ValueError"]

(***************************************************************************)
(* "Solve singles" of Puzzle.solve: s.value = s.candidates.pop() for every *)
(* unsolved square with one candidate, collected in solved_this_round.     *)
(***************************************************************************)
value_and_append(st, s) ==
    LET v == CHOOSE d \in st.candidates[s] : TRUE
        popped == [st EXCEPT !.candidates[s] = {}]
    IN  With(value_setter(popped, s, v),
             LAMBDA set : IF set.raised # NoError THEN set
                          ELSE [set EXCEPT !.solved_this_round = Append(@, s)])

\* for s in self.unsolved_squares: if len(s.candidates) == 1: ...
solve_singles(st, unsolved_list) ==
    Loop(st, 1, Len(unsolved_list), Raised,
         LAMBDA st1, k :
             IF Cardinality(st1.candidates[unsolved_list[k]]) = 1
             THEN value_and_append(st1, unsolved_list[k])
             ELSE st1)

\* The removal loop of lines 696-697 left out.
remove_solved_skipped(st, solved) == st

\* for s in solved_this_round: self.unsolved_squares.remove(s)
remove_solved(st, solved) ==
    Loop(st, 1, Len(solved), Raised,
         LAMBDA st1, k :
             IF solved[k] \in Range(st1.unsolved_squares)
             THEN [st1 EXCEPT !.unsolved_squares = list_remove(@, solved[k])]
             ELSE [st1 EXCEPT !.raised = "ValueError"])


(***************************************************************************)
(* The inputs.  A puzzle is the 81 digits handed to Puzzle(values), square *)
(* i at position i + 1.                                                    *)
(***************************************************************************)
\* The puzzle of the scenario: hidden singles, naked pairs and an X-Wing solve it.
Scenario ==
    << 0,3,0,2,0,6,0,5,0,  6,0,0,7,0,8,0,0,1,  0,0,0,0,3,0,0,0,0,
       3,4,0,1,0,9,0,6,5,  0,0,2,0,0,0,9,0,0,  5,8,0,4,0,3,0,2,7,
       0,0,0,0,7,0,0,0,0,  7,0,0,9,0,2,0,0,8,  0,1,0,6,0,5,0,7,0 >>

\* The completion of Scenario: a grid that is solved when solve is entered.
ScenarioSolved ==
    << 8,3,1,2,9,6,7,5,4,  6,2,5,7,4,8,3,9,1,  9,7,4,5,3,1,6,8,2,
       3,4,7,1,2,9,8,6,5,  1,6,2,8,5,7,9,4,3,  5,8,9,4,6,3,1,2,7,
       2,9,8,3,7,4,5,1,6,  7,5,6,9,1,2,4,3,8,  4,1,3,6,8,5,2,7,9 >>

\* A puzzle that takes naked lines, hidden pairs and naked and hidden triples.
Triples ==
    << 0,5,9,1,4,0,0,0,0,  0,0,1,0,0,0,0,0,0,  0,0,0,0,0,6,0,0,0,
       0,0,0,3,0,2,0,0,0,  0,0,0,0,7,0,0,0,2,  0,0,2,4,0,0,5,0,6,
       0,0,5,0,0,1,0,0,0,  6,3,0,2,0,0,0,0,8,  2,0,0,0,0,3,9,0,0 >>

TriplesSolved ==
    << 3,5,9,1,4,8,6,2,7,  8,6,1,9,2,7,3,4,5,  7,2,4,5,3,6,8,9,1,
       5,4,6,3,1,2,7,8,9,  9,8,3,6,7,5,4,1,2,  1,7,2,4,8,9,5,3,6,
       4,9,5,8,6,1,2,7,3,  6,3,7,2,9,4,1,5,8,  2,1,8,7,5,3,9,6,4 >>

\* A puzzle that takes naked and hidden lines, a naked pair and a naked
\* quadruple, and is then stuck.
Quadruples ==
    << 4,0,0,0,0,0,0,5,1,  0,8,3,0,0,0,0,0,0,  0,0,0,0,6,0,0,7,0,
       0,0,2,6,9,0,0,0,0,  0,0,0,0,0,0,4,0,2,  8,0,6,0,0,0,5,0,0,
       0,0,0,2,7,0,0,9,0,  0,5,0,8,0,0,0,0,0,  0,9,7,0,0,0,2,0,0 >>

QuadruplesSolved ==
    << 4,6,9,3,2,7,8,5,1,  7,8,3,9,5,1,6,2,4,  1,2,5,4,6,8,9,7,3,
       5,4,2,6,9,3,1,8,7,  9,3,1,7,8,5,4,6,2,  8,7,6,1,4,2,5,3,9,
       6,1,8,2,7,4,3,9,5,  2,5,4,8,3,9,7,1,6,  3,9,7,5,1,6,2,4,8 >>

\* 81 zeros.
Blank == [k \in 1..81 |-> 0]

Puzzles == << Scenario, ScenarioSolved, Triples, Quadruples, Blank >>

\* The complete grids the soundness of the eliminations is measured against.
Completions == {ScenarioSolved, TriplesSolved, QuadruplesSolved}

\* Overridden squares are 0..MaxOverrideSquare.
MaxOverrideSquare == 1

\* The puzzle p with the digit of square i replaced by d.
Override(p, i, d) == [p EXCEPT ![i + 1] = d]

\* The puzzles as they are, and the first two with one square overridden by
\* any digit: a given blanked, a blank filled in rightly or wrongly, a given
\* replaced by a digit that repeats in its row, column or box.
Inputs ==
    {Puzzles[b] : b \in 1..Len(Puzzles)}
        \cup {Override(Puzzles[b], i, d) : b \in 1..2, i \in 0..MaxOverrideSquare, d \in 0..9}

(***************************************************************************)
(* State.                                                                  *)
(***************************************************************************)
VARIABLES
    values,                   \* the argument of Puzzle(values)
    value,                    \* Square._value of every square (None = 0)
    given,                    \* Square._given of every square
    candidates,               \* Square._candidates of every square
    unsolved_squares,         \* Grid.unsolved_squares
    unit_unsolved,            \* Unit._unsolved_squares of every unit
    move_stack,               \* Puzzle.move_stack
    current_moves,            \* solve: current_moves
    iterations,               \* solve: iterations
    affected_grid,            \* update_notation: affected_grid
    affected_this_iteration,  \* update_notation: affected_this_iteration
    pc,                       \* the statement solve / update_notation is at
    u,                        \* the position of the running "for u in ..." loop
    raised,                   \* the exception that ended the call, or NoError
    outcome,                  \* how solve ended
    call                      \* the arguments of a direct call of a Square method

vars == << values, value, given, candidates, unsolved_squares, unit_unsolved, move_stack,
           current_moves, iterations, affected_grid, affected_this_iteration, pc, u,
           raised, outcome, call >>

NoCall == [square |-> 0, values |-> {}]

(***************************************************************************)
(* Puzzle.__init__ / Grid.__init__ / Square.__init__ on the digits p.      *)
(***************************************************************************)
Construct(p) ==
    /\ values = p
    /\ value = [i \in Squares |-> IF p[i + 1] # 0 THEN p[i + 1] ELSE None]
    /\ given = [i \in Squares |-> p[i + 1] # 0]
    /\ candidates = [i \in Squares |-> IF p[i + 1] # 0 THEN {} ELSE Digits]
    /\ unsolved_squares = SquareSeq({i \in Squares : p[i + 1] = 0})
    /\ unit_unsolved = [n \in Units |-> SquareSeq({i \in Squares : InUnit(i, n) /\ p[i + 1] = 0})]
    /\ move_stack = <<>>

Init ==
    /\ \E p \in Inputs : Construct(p)
    /\ current_moves = 0
    /\ iterations = 0
    /\ affected_grid = FALSE
    /\ affected_this_iteration = FALSE
    /\ pc = "solve"
    /\ u = 1
    /\ raised = NoError
    /\ outcome = "Running"
    /\ call = NoCall


(***************************************************************************)
(* Puzzle.solve and Puzzle.update_notation, one action per statement group *)
(* and one step per call of a Unit technique.                              *)
(***************************************************************************)
G == [candidates |-> candidates, move_stack |-> move_stack, raised |-> raised, ret |-> FALSE]

\* The state after a technique call left h: the next statement, or the end of
\* solve when the call raised.
Step(h, aff, ati, next_pc, next_u) ==
    /\ candidates' = h.candidates
    /\ move_stack' = h.move_stack
    /\ raised' = h.raised
    /\ IF h.raised # NoError
       THEN /\ pc' = "done"
            /\ outcome' = "Error"
            /\ UNCHANGED << affected_grid, affected_this_iteration, u >>
       ELSE /\ pc' = next_pc
            /\ u' = next_u
            /\ affected_grid' = aff
            /\ affected_this_iteration' = ati
            /\ UNCHANGED outcome
    /\ UNCHANGED << values, value, given, unsolved_squares, unit_unsolved, current_moves,
                    iterations, call >>

\* One call of "for u in units: affected_grid |= u.<technique>()"; at_end is the
\* statement after the loop.
ForUnits(h, units, here, at_end) ==
    IF u < Len(units)
    THEN Step(h, affected_grid \/ h.ret, affected_this_iteration, here, u + 1)
    ELSE Step(h, affected_grid \/ h.ret, affected_this_iteration, at_end, 1)

\* "if affected_grid: return" after a loop: the return leads to "Solve singles".
ForUnitsReturn(h, units, here, at_end) ==
    IF u < Len(units)
    THEN Step(h, affected_grid \/ h.ret, affected_this_iteration, here, u + 1)
    ELSE Step(h, affected_grid \/ h.ret, affected_this_iteration,
              IF affected_grid \/ h.ret THEN "solve_singles" ELSE at_end, 1)

\* solve, lines 666-675.
SolveEntry ==
    /\ pc = "solve"
    /\ IF ~is_valid(value)
       THEN /\ pc' = "done"
            /\ outcome' = "Invalid"
            /\ UNCHANGED << current_moves, iterations >>
       ELSE /\ pc' = "while"
            /\ current_moves' = Len(move_stack)
            /\ iterations' = 0
            /\ UNCHANGED outcome
    /\ UNCHANGED << values, value, given, candidates, unsolved_squares, unit_unsolved,
                    move_stack, affected_grid, affected_this_iteration, u, raised, call >>

MaxIterations == 820

\* solve, lines 676-683: the loop condition, and the entry of update_notation.
While ==
    /\ pc = "while"
    /\ iterations < MaxIterations
    /\ IF is_solved(value)
       THEN /\ pc' = "done"
            /\ outcome' = "Solved"
            /\ UNCHANGED << iterations, affected_grid >>
       ELSE /\ pc' = "simple_pruning"
            /\ iterations' = iterations + 1
            /\ affected_grid' = FALSE
            /\ UNCHANGED outcome
    /\ UNCHANGED << values, value, given, candidates, unsolved_squares, unit_unsolved,
                    move_stack, current_moves, affected_this_iteration, u, raised, call >>

\* update_notation, lines 583-593.
SimplePruning ==
    /\ pc = "simple_pruning"
    /\ \E h \in {simple_pruning(G, value, unsolved_squares)} :
          Step(h, affected_grid \/ h.ret, affected_this_iteration, "hidden_singles", 1)

\* update_notation, lines 598-603.
HiddenSingles ==
    /\ pc = "hidden_singles"
    /\ \E h \in {find_hidden_singles(G, unit_unsolved[AllUnits[u]])} :
          ForUnitsReturn(h, AllUnits, "hidden_singles", "naked_lines")

\* update_notation, lines 606-610: the first call of a round of the while loop
\* starts from affected_this_iteration = False.
NakedLines ==
    /\ pc = "naked_lines"
    /\ \E h \in {find_naked_lines(G, unit_unsolved, BoxUnits[u])} :
          LET ati == (IF u = 1 THEN FALSE ELSE affected_this_iteration) \/ h.ret
          IN  IF u < Len(BoxUnits)
              THEN Step(h, affected_grid, ati, "naked_lines", u + 1)
              ELSE Step(h, affected_grid, ati, "hidden_lines", 1)

\* update_notation, lines 612-622.
HiddenLines ==
    /\ pc = "hidden_lines"
    /\ \E h \in {find_hidden_lines(G, unit_unsolved, (RowUnits \o ColumnUnits)[u])} :
          LET ati == affected_this_iteration \/ h.ret
          IN  IF u < Len(RowUnits \o ColumnUnits)
              THEN Step(h, affected_grid, ati, "hidden_lines", u + 1)
              ELSE IF ati
              THEN Step(h, TRUE, ati, "naked_lines", 1)
              ELSE Step(h, affected_grid, ati,
                        IF affected_grid THEN "solve_singles" ELSE "naked_pairs", 1)

\* update_notation, lines 626-627.
NakedPairs ==
    /\ pc = "naked_pairs"
    /\ \E h \in {find_naked_pairs(G, unit_unsolved[AllUnits[u]])} :
          ForUnits(h, AllUnits, "naked_pairs", "hidden_pairs")

\* update_notation, lines 630-631.
HiddenPairs ==
    /\ pc = "hidden_pairs"
    /\ \E h \in {find_hidden_pairs(G, unit_unsolved[AllUnits[u]])} :
          ForUnits(h, AllUnits, "hidden_pairs", "naked_triples")

\* update_notation, lines 634-635.
NakedTriples ==
    /\ pc = "naked_triples"
    /\ \E h \in {find_naked_triples(G, unit_unsolved[AllUnits[u]])} :
          ForUnits(h, AllUnits, "naked_triples", "hidden_triples")

\* update_notation, lines 638-642.
HiddenTriples ==
    /\ pc = "hidden_triples"
    /\ \E h \in {find_hidden_triples(G, unit_unsolved[AllUnits[u]])} :
          ForUnitsReturn(h, AllUnits, "hidden_triples", "naked_quadruples")

\* update_notation, lines 645-646.
NakedQuadruples ==
    /\ pc = "naked_quadruples"
    /\ \E h \in {find_naked_quadruples(G, unit_unsolved[AllUnits[u]])} :
          ForUnits(h, AllUnits, "naked_quadruples", "hidden_quadruples")

\* update_notation, lines 649-653.
HiddenQuadruples ==
    /\ pc = "hidden_quadruples"
    /\ \E h \in {find_hidden_quadruples(G, unit_unsolved[AllUnits[u]])} :
          ForUnitsReturn(h, AllUnits, "hidden_quadruples", "x_wings")

\* update_notation, lines 657-663.
XWings ==
    /\ pc = "x_wings"
    /\ \E h \in {find_x_wings(G, unsolved_squares)} :
          Step(h, affected_grid, affected_this_iteration, "solve_singles", 1)


\* solve, lines 689-697.
SolveSingles ==
    /\ pc = "solve_singles"
    /\ \E st0 \in {[value |-> value, candidates |-> candidates, move_stack |-> move_stack,
                      unit_unsolved |-> unit_unsolved, unsolved_squares |-> unsolved_squares,
                      raised |-> raised, solved_this_round |-> <<>>]} :
          \E st1 \in {solve_singles(st0, unsolved_squares)} :
              \E st2 \in {remove_solved(st1, st1.solved_this_round)} :
                  /\ value' = st2.value
                  /\ candidates' = st2.candidates
                  /\ move_stack' = st2.move_stack
                  /\ unit_unsolved' = st2.unit_unsolved
                  /\ unsolved_squares' = st2.unsolved_squares
                  /\ raised' = st2.raised
                  /\ IF st2.raised # NoError
                     THEN pc' = "done" /\ outcome' = "Error"
                     ELSE pc' = "check_moves" /\ UNCHANGED outcome
    /\ UNCHANGED << values, given, current_moves, iterations, affected_grid,
                    affected_this_iteration, u, call >>

\* The end of a cycle without the validity check of lines 719-721.
CheckMoves_unchecked ==
    /\ pc = "check_moves"
    /\ IF current_moves = Len(move_stack)
       THEN /\ pc' = "done"
            /\ outcome' = "Stuck"
            /\ UNCHANGED current_moves
       ELSE /\ current_moves' = Len(move_stack)
            /\ pc' = "while"
            /\ UNCHANGED outcome
    /\ UNCHANGED << values, value, given, candidates, unsolved_squares, unit_unsolved,
                    move_stack, iterations, affected_grid, affected_this_iteration, u,
                    raised, call >>

\* solve, lines 707-721.
CheckMoves ==
    /\ pc = "check_moves"
    /\ IF current_moves = Len(move_stack)
       THEN /\ pc' = "done"
            /\ outcome' = "Stuck"
            /\ UNCHANGED current_moves
       ELSE /\ current_moves' = Len(move_stack)
            /\ IF ~is_valid(value)
               THEN pc' = "done" /\ outcome' = "Invalid"
               ELSE pc' = "while" /\ UNCHANGED outcome
    /\ UNCHANGED << values, value, given, candidates, unsolved_squares, unit_unsolved,
                    move_stack, iterations, affected_grid, affected_this_iteration, u,
                    raised, call >>

Next ==
    \/ SolveEntry
    \/ While
    \/ SimplePruning
    \/ HiddenSingles
    \/ NakedLines
    \/ HiddenLines
    \/ NakedPairs
    \/ HiddenPairs
    \/ NakedTriples
    \/ HiddenTriples
    \/ NakedQuadruples
    \/ HiddenQuadruples
    \/ XWings
    \/ SolveSingles
    \/ CheckMoves

Spec == Init /\ [][Next]_vars


\* solve runs to its end: a statement that can run does run.
FairSpec == Spec /\ WF_vars(Next)

(***************************************************************************)
(* Measures used by the properties.                                        *)
(***************************************************************************)
\* The candidates still held, plus the squares without a value.
Work ==
    Cardinality({sd \in Squares \X Digits : sd[2] \in candidates[sd[1]]})
        + Cardinality({s \in Squares : value[s] = None})

\* Work of the freshly constructed grid: nine candidates and one square per blank.
InitialWork == 10 * Cardinality({i \in 1..81 : values[i] = 0})

\* Two squares of one unit hold the same digit in val.
HasDuplicate(val) ==
    \E n \in Units : \E k1, k2 \in 1..9 :
        /\ k1 < k2
        /\ val[unit_squares(n)[k1]] # None
        /\ val[unit_squares(n)[k1]] = val[unit_squares(n)[k2]]

InitialValue == [i \in Squares |-> values[i + 1]]

InitialCandidates == [i \in Squares |-> IF values[i + 1] = 0 THEN Digits ELSE {}]

\* The complete grid sol agrees with every given digit of the input.
Completes(sol) == \A i \in 1..81 : values[i] # 0 => values[i] = sol[i]

(***************************************************************************)
(* C1.  solve terminates in exactly one of Solved, Stuck, Invalid; every   *)
(* cycle that does not halt assigns a square or removes a candidate, so    *)
(* the number of cycles is at most the number of candidates plus unsolved  *)
(* squares of the initial grid.                                            *)
(***************************************************************************)
C1_Terminates ==
    /\ <>(pc = "done")
    /\ [](pc = "done" => outcome \in {"Solved", "Stuck", "Invalid"})
    /\ [](iterations <= InitialWork)
    /\ [](pc = "while" => Work + iterations <= InitialWork)

\* solve has ended as Stuck after more than ten cycles, each of which went
\* through the intersection-removal loop.
C1_Witness ==
    /\ pc = "done"
    /\ outcome = "Stuck"
    /\ iterations > 10

(***************************************************************************)
(* C2.  Soundness: when a complete grid agrees with the givens, every      *)
(* unsolved square still has the grid's digit among its candidates and     *)
(* every value equals the grid's digit, in every state of solve.           *)
(***************************************************************************)
C2_Sound ==
    \A sol \in Completions :
        Completes(sol) =>
            \A s \in Squares :
                IF value[s] = None THEN sol[s + 1] \in candidates[s]
                ELSE value[s] = sol[s + 1]

\* An X-Wing has just removed candidates (no earlier stage of the cycle did)
\* in a puzzle that has a completion.
C2_Witness ==
    /\ \E sol \in Completions : Completes(sol)
    /\ pc = "solve_singles"
    /\ ~affected_grid
    /\ Len(move_stack) > current_moves

(***************************************************************************)
(* C3.  When solve ends as Solved, every row, column and box holds each    *)
(* digit 1..9 exactly once and every given square holds its given digit.   *)
(***************************************************************************)
C3_SolvedIsLatin ==
    (pc = "done" /\ outcome = "Solved") =>
        /\ \A n \in Units : \A d \in Digits :
              Cardinality({s \in Squares : InUnit(s, n) /\ value[s] = d}) = 1
        /\ \A s \in Squares : values[s + 1] # 0 => value[s] = values[s + 1]

C3_Witness ==
    /\ pc = "done"
    /\ outcome = "Solved"
    /\ iterations > 1
    /\ \E s \in Squares : ~given[s]

(***************************************************************************)
(* C4.  A cycle ends as soon as one stage has changed a candidate: a later *)
(* stage is entered only when the cycle has appended nothing so far.  The  *)
(* stages are simple pruning, hidden singles, intersection removal,        *)
(* naked/hidden pairs, naked/hidden triples, naked/hidden quadruples,      *)
(* X-Wings.                                                                *)
(***************************************************************************)
EntersStage ==
    \/ pc \in {"hidden_singles", "naked_pairs", "naked_triples", "naked_quadruples"} /\ u = 1
    \/ pc = "naked_lines" /\ u = 1 /\ ~affected_grid
    \/ pc = "x_wings"

C4_StopsAfterChange == EntersStage => Len(move_stack) = current_moves

(***************************************************************************)
(* C5.  An input with two equal given digits in one row, column or box     *)
(* ends as Invalid at the entry of solve: no cycle runs, the move stack    *)
(* stays empty, no value and no candidate set changes.                     *)
(***************************************************************************)
C5_DuplicateGivensInvalid ==
    HasDuplicate(InitialValue) =>
        /\ pc \in {"solve", "done"}
        /\ pc = "done" => outcome = "Invalid"
        /\ iterations = 0
        /\ move_stack = <<>>
        /\ value = InitialValue
        /\ candidates = InitialCandidates

\* Ended on an input whose only repetition is within a column and a box.
C5_Witness ==
    /\ pc = "done"
    /\ HasDuplicate(InitialValue)
    /\ \A n \in Rows : unit_is_valid(InitialValue, n)

(***************************************************************************)
(* C6.  If after the assignments of a cycle some unit holds two equal      *)
(* values, solve ends as Invalid at once, with the move stack, the values  *)
(* and the candidates as they are.                                         *)
(***************************************************************************)
C6_InvalidAfterCycleHalts ==
    [][(pc = "check_moves" /\ HasDuplicate(value))
       => (/\ pc' = "done"
           /\ outcome' = "Invalid"
           /\ move_stack' = move_stack
           /\ value' = value
           /\ candidates' = candidates)]_vars

C6_Witness ==
    /\ pc = "done"
    /\ outcome = "Invalid"
    /\ iterations > 0
    /\ \E k \in 1..Len(move_stack) : move_stack[k].op = "="

(***************************************************************************)
(* C7.  solve ends as Stuck exactly when the cycle appended no entry to    *)
(* the move stack; a step that appends nothing changes no value and no     *)
(* candidate set, so nothing changed in such a cycle.                      *)
(***************************************************************************)
C7_StuckIffNoEntry ==
    [][/\ Len(move_stack') = Len(move_stack) => (value' = value /\ candidates' = candidates)
       /\ pc = "check_moves" => ((outcome' = "Stuck") <=> (Len(move_stack) = current_moves))
       /\ outcome' = "Stuck" => pc = "check_moves"]_vars

C7_Witness ==
    /\ pc = "done"
    /\ outcome = "Stuck"
    /\ iterations > 1
    /\ Len(move_stack) = current_moves

(***************************************************************************)
(* C8.  For every unsolved square, the digits named by its removal         *)
(* entries "<index>-=<digits>" are exactly the digits 1..9 that are no     *)
(* longer among its candidates.                                            *)
(***************************************************************************)
RemovedByLog(s) ==
    UNION {move_stack[k].digits : k \in {j \in 1..Len(move_stack) :
                                           move_stack[j].index = s /\ move_stack[j].op = "-="}}

C8_RemovalsLogged ==
    \A s \in Squares : value[s] = None => RemovedByLog(s) = Digits \ candidates[s]

(***************************************************************************)
(* Direct calls of Square.keep_candidates.  The call is made on a square   *)
(* of the blank puzzle whose candidates were first set, through the        *)
(* candidates setter (which appends "<index>=<digits>"), to a set c; the   *)
(* requested values v may hold 0, which is no digit.                       *)
(***************************************************************************)
MaxKeepDigit == 6

KeepSquares == {40}

InitKeep ==
    /\ \E s \in KeepSquares, c \in SUBSET (1..MaxKeepDigit), v \in SUBSET (0..MaxKeepDigit) :
          /\ candidates = [i \in Squares |-> IF i = s THEN c \cap Digits ELSE Digits]
          /\ move_stack = << Entry(s, "=", c \cap Digits) >>
          /\ call = [square |-> s, values |-> v]
    /\ values = Blank
    /\ value = [i \in Squares |-> None]
    /\ given = [i \in Squares |-> FALSE]
    /\ unsolved_squares = SquareSeq(Squares)
    /\ unit_unsolved = [n \in Units |-> unit_squares(n)]
    /\ current_moves = 0
    /\ iterations = 0
    /\ affected_grid = FALSE
    /\ affected_this_iteration = FALSE
    /\ pc = "keep_candidates"
    /\ u = 1
    /\ raised = NoError
    /\ outcome = "Running"

\* affected_grid = <square>.keep_candidates(values)
CallKeep ==
    /\ pc = "keep_candidates"
    /\ \E h \in {keep_candidates(G, call.square, call.values)} :
           /\ candidates' = h.candidates
           /\ move_stack' = h.move_stack
           /\ raised' = h.raised
           /\ affected_grid' = IF h.raised = NoError THEN h.ret ELSE affected_grid
    /\ pc' = "returned"
    /\ UNCHANGED << values, value, given, unsolved_squares, unit_unsolved, current_moves,
                    iterations, affected_this_iteration, u, outcome, call >>

NextKeep == CallKeep

SpecKeep == InitKeep /\ [][NextKeep]_vars

(***************************************************************************)
(* C9.  keep_candidates called with a set of digits of 1..9 that is        *)
(* disjoint from the square's candidates raises an error and leaves the    *)
(* square's candidates, its value and the move stack as they were.         *)
(***************************************************************************)
C9_DisjointKeepRaises ==
    [][(/\ pc = "keep_candidates"
        /\ call.values \subseteq Digits
        /\ candidates[call.square] \cap call.values = {})
       => (/\ raised' = "ValueError"
           /\ candidates' = candidates
           /\ value' = value
           /\ move_stack' = move_stack)]_vars

C9_Witness ==
    /\ pc = "returned"
    /\ raised = "ValueError"
    /\ call.values # {}
    /\ call.values \subseteq Digits
    /\ candidates[call.square] # {}
    /\ candidates[call.square] \cap call.values = {}

(***************************************************************************)
(* C10.  With candidates C and requested digits V of 1..9, C \cap V not    *)
(* empty: keep_candidates leaves the square with exactly C \cap V and      *)
(* returns true iff C is not a subset of V; when C is a subset of V it     *)
(* returns false, changes nothing and appends nothing to the move stack.   *)
(***************************************************************************)
C10_KeepIntersects ==
    [][(/\ pc = "keep_candidates"
        /\ call.values \subseteq Digits
        /\ candidates[call.square] \cap call.values # {})
       => (/\ raised' = NoError
           /\ candidates' = [candidates EXCEPT ![call.square] = @ \cap call.values]
           /\ value' = value
           /\ affected_grid' = ~(candidates[call.square] \subseteq call.values)
           /\ candidates[call.square] \subseteq call.values
                 => candidates' = candidates /\ move_stack' = move_stack)]_vars

\* A call whose requested set is a strict superset of the candidates has returned.
C10_Witness ==
    /\ pc = "returned"
    /\ raised = NoError
    /\ ~affected_grid
    /\ candidates[call.square] \subseteq call.values
    /\ candidates[call.square] # call.values
    /\ call.values \subseteq Digits
    /\ move_stack = << Entry(call.square, "=", candidates[call.square]) >>

(***************************************************************************)
(* Direct calls of the Square.value setter, "<square>.value = v", on the   *)
(* squares of a constructed puzzle: a call, and after a call that returned *)
(* a second one, so that a square solved by the setter is called again.    *)
(* The assigned v may be 0 or more than 9, which are no digits.            *)
(***************************************************************************)
MaxValueDigit == 10

ValueSquares == {0, 1, 2}

ValueCalls == {[square |-> s, value |-> v] : s \in ValueSquares, v \in 0..MaxValueDigit}

InitValue ==
    /\ Construct(Scenario)
    /\ call \in ValueCalls
    /\ current_moves = 0
    /\ iterations = 0
    /\ affected_grid = FALSE
    /\ affected_this_iteration = FALSE
    /\ pc = "value_setter"
    /\ u = 1
    /\ raised = NoError
    /\ outcome = "Running"

\* <square>.value = v
CallValue ==
    /\ pc = "value_setter"
    /\ \E st \in {value_setter([value |-> value, move_stack |-> move_stack,
                                unit_unsolved |-> unit_unsolved, raised |-> raised],
                               call.square, call.value)} :
           /\ value' = st.value
           /\ move_stack' = st.move_stack
           /\ unit_unsolved' = st.unit_unsolved
           /\ raised' = st.raised
    /\ pc' = "returned"
    /\ UNCHANGED << values, given, candidates, unsolved_squares, current_moves, iterations,
                    affected_grid, affected_this_iteration, u, outcome, call >>

\* The caller goes on to a second assignment after one that returned.
SecondValue ==
    /\ pc = "returned"
    /\ raised = NoError
    /\ Len(move_stack) = 1
    /\ call' \in ValueCalls
    /\ pc' = "value_setter"
    /\ UNCHANGED << values, value, given, candidates, unsolved_squares, unit_unsolved,
                    move_stack, current_moves, iterations, affected_grid,
                    affected_this_iteration, u, raised, outcome >>

NextValue == CallValue \/ SecondValue

SpecValue == InitValue /\ [][NextValue]_vars

(***************************************************************************)
(* C11.  Assigning a value that is no digit of 1..9, or assigning to a     *)
(* square that already has a value, raises an error and leaves the value   *)
(* of the square, the unsolved lists of the units and of the grid and the  *)
(* move stack as they were.                                                *)
(***************************************************************************)
C11_SetterChecksFirst ==
    [][(/\ pc = "value_setter"
        /\ (call.value \notin Digits \/ value[call.square] # None))
       => (/\ raised' = "ValueError"
           /\ value' = value
           /\ unit_unsolved' = unit_unsolved
           /\ unsolved_squares' = unsolved_squares
           /\ move_stack' = move_stack)]_vars

(***************************************************************************)
(* C12.  On an input that passes the validity check at the entry of solve, *)
(* in every state of solve a square without a value has a non-empty set of *)
(* candidates within 1..9 and a square with a value has no candidates.     *)
(***************************************************************************)
C12_CandidatesWellFormed ==
    is_valid(InitialValue) =>
        \A s \in Squares :
            IF value[s] = None
            THEN candidates[s] # {} /\ candidates[s] \subseteq Digits
            ELSE candidates[s] = {}

(***************************************************************************)
(* C13.  The unsolved list of the grid is exactly the squares without a    *)
(* value, each once, and the unsolved list of every row, column and box is *)
(* exactly its own squares without a value, each once.                     *)
(***************************************************************************)
\* The list holds exactly the squares of S, each once.
ListExact(list, S) == Range(list) = S /\ Len(list) = Cardinality(S)

UnitListsExact(val, lists) ==
    \A n \in Units : ListExact(lists[n], {s \in Squares : InUnit(s, n) /\ val[s] = None})

GridListExact(val, list) == ListExact(list, {s \in Squares : val[s] = None})

\* The grid right after the assignments of "Solve singles" (lines 691-694),
\* before the removal loop of lines 696-697.
AfterAssignments ==
    solve_singles([value |-> value, candidates |-> candidates, move_stack |-> move_stack,
                   unit_unsolved |-> unit_unsolved, unsolved_squares |-> unsolved_squares,
                   raised |-> raised, solved_this_round |-> <<>>], unsolved_squares)

XLines(o) == IF o = "Rows" THEN RowUnits ELSE ColumnUnits

XCross(o) == IF o = "Rows" THEN ColumnUnits ELSE RowUnits

\* The cross-positions 0..8 at which line j of orientation o has d as a candidate.
XPositions(d, o, j) == {c \in 0..8 : d \in candidates[unit_squares(XLines(o)[j + 1])[c + 1]]}

\* The squares of the cross-lines cs outside lines j and k.
XOutside(o, j, k, cs) ==
    {s \in Squares : /\ \E c \in cs : InUnit(s, XCross(o)[c + 1])
                     /\ ~InUnit(s, XLines(o)[j + 1])
                     /\ ~InUnit(s, XLines(o)[k + 1])}

C14_XWingPattern ==
    /\ [](pc = "x_wings" =>
            \A d \in Digits, o \in {"Rows", "Columns"}, j, k \in 0..8 :
                (/\ j < k
                 /\ XPositions(d, o, j) # {}
                 /\ XPositions(d, o, k) # {}
                 /\ Cardinality(XPositions(d, o, j) \cup XPositions(d, o, k)) = 2)
                => (/\ Cardinality(XPositions(d, o, j)) = 2
                    /\ XPositions(d, o, k) = XPositions(d, o, j)))
    /\ [][(pc = "x_wings" /\ candidates' # candidates) =>
            \E d \in Digits, o \in {"Rows", "Columns"}, j, k \in 0..8 :
                /\ j < k
                /\ Cardinality(XPositions(d, o, j)) = 2
                /\ XPositions(d, o, k) = XPositions(d, o, j)
                /\ \A s \in Squares :
                      candidates'[s] =
                          IF s \in XOutside(o, j, k, XPositions(d, o, j))
                          THEN candidates[s] \ {d} ELSE candidates[s]
                /\ \A n \in (Len(move_stack) + 1)..Len(move_stack') :
                      /\ move_stack'[n].op = "-="
                      /\ move_stack'[n].digits = {d}
                      /\ move_stack'[n].index \in XOutside(o, j, k, XPositions(d, o, j))]_vars

\* find_x_wings has just removed a digit from two or more squares.
C14_Witness ==
    /\ pc = "solve_singles"
    /\ ~affected_grid
    /\ Len(move_stack) >= current_moves + 2
    /\ move_stack[Len(move_stack)].op = "-="
    /\ Cardinality(move_stack[Len(move_stack)].digits) = 1

(***************************************************************************)
(* C15.  find_naked_pairs, find_naked_triples and find_naked_quadruples    *)
(* are called on a unit none of whose unsolved squares has exactly one     *)
(* candidate; and the naked triples and naked quadruples stages, which     *)
(* call every unit, start only in a cycle that has changed no candidate so *)
(* far (every earlier stage that can have run is a smaller-subset stage).  *)
(***************************************************************************)
\* The unit on which the naked-set stage is about to be called has no unsolved single.
NoUnsolvedSingles ==
    \A s \in Range(unit_unsolved[AllUnits[u]]) : Cardinality(candidates[s]) # 1

C15_NakedPreconditions ==
    /\ pc \in {"naked_pairs", "naked_triples", "naked_quadruples"} => NoUnsolvedSingles
    /\ (pc \in {"naked_triples", "naked_quadruples"} /\ u = 1)
          => Len(move_stack) = current_moves

(***************************************************************************)
(* C16.  In every step of solve the candidates of every square stay as     *)
(* they are or lose digits, a square that has a value keeps that value,    *)
(* and the move stack of before is a prefix of the move stack of after.    *)
(***************************************************************************)
C16_Monotone ==
    [][/\ \A s \in Squares : candidates'[s] \subseteq candidates[s]
       /\ \A s \in Squares : value[s] # None => value'[s] = value[s]
       /\ Len(move_stack') >= Len(move_stack)
       /\ SubSeq(move_stack', 1, Len(move_stack)) = move_stack]_vars

\* A cycle has assigned a square while another square, still without a
\* value, has lost some but not all of its candidates.
C16_Witness ==
    /\ pc = "check_moves"
    /\ move_stack # <<>>
    /\ move_stack[Len(move_stack)].op = "="
    /\ \E s \in Squares : value[s] = None /\ Cardinality(candidates[s]) \in 2..8
    /\ \E s \in Squares : ~given[s] /\ value[s] # None

(***************************************************************************)
(* C17.  No statement of the solving loop raises: no call of               *)
(* keep_candidates, no assignment and no call of find_x_wings ends solve   *)
(* with an exception.  find_x_wings is entered with a non-empty unsolved   *)
(* list of the grid, and the squares "Solve singles" goes through have no  *)
(* value and are in the unsolved lists of their row, column and box.       *)
(***************************************************************************)
C17_NoErrorInLoop ==
    /\ raised = NoError
    /\ outcome # "Error"
    /\ pc = "x_wings" => unsolved_squares # <<>>
    /\ pc = "solve_singles" =>
          \A s \in Range(unsolved_squares) :
              /\ value[s] = None
              /\ s \in Range(unit_unsolved[row_of(s)])
              /\ s \in Range(unit_unsolved[column_of(s)])
              /\ s \in Range(unit_unsolved[box_of(s)])

\* solve has ended without an exception after a hidden set kept candidates
\* on two squares in a row (two entries of keep_candidates) and after
\* squares were assigned.
C17_Witness ==
    /\ pc = "done"
    /\ raised = NoError
    /\ \E k \in 1..(Len(move_stack) - 1) :
          /\ move_stack[k].op = "-=" /\ move_stack[k].digits = {}
          /\ move_stack[k + 1].op = "-=" /\ move_stack[k + 1].digits = {}
          /\ move_stack[k].index # move_stack[k + 1].index
    /\ \E k \in 1..Len(move_stack) : move_stack[k].op = "="

====
